---- MODULE Spec2Model ----
(***************************************************************************)
(* apache_beam/typehints/schemas.py: translation between native types and  *)
(* portable schema descriptors (FieldType protos), the schema registry,    *)
(* the logical type registry and the re-hydration of synthesized tuples.   *)
(*                                                                         *)
(* Values.  Every native type, descriptor and registry entry is a tuple    *)
(* whose first element is a tag.                                           *)
(*   native types   <<"prim", n>>  <<"Optional", t>>  <<"Sequence", t>>    *)
(*                  <<"Mapping", k, v>>  <<"Dict", k, v>>  <<"list">>      *)
(*                  <<"NT", n>> (user NamedTuple)  <<"Synth", k>> (the     *)
(*                  k-th NamedTuple generated by decode)  <<"lang", n>>    *)
(*                  <<"Any">>  <<"object">>  <<"RowTypeConstraint", u>>    *)
(*                  <<"Schema", id, fields>> (a schema_pb2.Schema)         *)
(*   descriptors    <<"atomic_type", nullable, kind>>                      *)
(*                  <<"array_type", nullable, element>>                    *)
(*                  <<"map_type", nullable, key, value>>                   *)
(*                  <<"row_type", nullable, schema>>                       *)
(*                  <<"logical_type", nullable, urn, representation>>      *)
(*                  <<"unset", nullable>> (no oneof member set)            *)
(*   outcomes       a descriptor or type, or <<"raise", exception>>        *)
(***************************************************************************)
EXTENDS Integers, Sequences, FiniteSets, TLC

VARIABLES
  by_id,             \* [registry -> [id -> <<"entry", typing, schema>> or NoneV]]
  schema_id,         \* the schema id each user NamedTuple carries, or NoId
  synth,             \* the NamedTuple types generated by decode, in order
  coders,            \* types passed to coders.registry.register_coder
  by_urn,            \* LogicalTypeRegistry.by_urn
  by_logical_type,   \* LogicalTypeRegistry.by_logical_type
  by_language_type,  \* LogicalTypeRegistry.by_language_type
  last               \* the last top-level call: operation, inputs, outcome, events

vars == <<by_id, schema_id, synth, coders, by_urn, by_logical_type,
          by_language_type, last>>

-----------------------------------------------------------------------------
(* Bounds of the model *)

\* decode generates at most this many NamedTuple types in one behaviour
MaxSynth == 2
\* depth of nested typing_to_runner_api calls at which the interpreter gives up
MaxDepth == 8

-----------------------------------------------------------------------------
(* Constants of the program *)

\* None as a registry entry, schema, type or class; None as a schema id
NoneV == <<"None">>
NoId == "None"

PYTHON_ANY_URN == "beam:logical:pythonsdk_any:v1"
MICROS_INSTANT_URN == "beam:logical_type:micros_instant:v1"
PYTHON_CALLABLE_URN == "beam:logical_type:python_callable:v1"

\* attempts of generate_new_id
MaxTries == 100

\* the values uuid4 can return, and the ids schemas on the wire carry
Ids == {"id1", "id2"}

\* SCHEMA_REGISTRY is the process-wide registry, "custom" one the caller supplies
Registries == {"SCHEMA_REGISTRY", "custom"}

Prim(n) == <<"prim", n>>

_PRIMITIVES ==
  << <<Prim("np.int8"), "BYTE">>,
     <<Prim("np.int16"), "INT16">>,
     <<Prim("np.int32"), "INT32">>,
     <<Prim("np.int64"), "INT64">>,
     <<Prim("np.float32"), "FLOAT">>,
     <<Prim("np.float64"), "DOUBLE">>,
     <<Prim("str"), "STRING">>,
     <<Prim("bool"), "BOOLEAN">>,
     <<Prim("bytes"), "BYTES">> >>

\* the one-way mappings added by PRIMITIVE_TO_ATOMIC_TYPE.update
OneWay ==
  << <<Prim("ByteString"), "BYTES">>,
     <<Prim("int"), "INT64">>,
     <<Prim("float"), "DOUBLE">> >>

\* dict(pairs): the value of a key is the one of its last pair
DictOf(pairs, keyAt, valAt) ==
  [k \in {pairs[i][keyAt] : i \in DOMAIN pairs} |->
     LET last_i == CHOOSE i \in DOMAIN pairs :
                     /\ pairs[i][keyAt] = k
                     /\ \A j \in DOMAIN pairs : pairs[j][keyAt] = k => j <= i
     IN pairs[last_i][valAt]]

\* the reverse of the whole table, the one-way mappings included
ATOMIC_TYPE_TO_PRIMITIVE_of_all == DictOf(_PRIMITIVES \o OneWay, 2, 1)

PRIMITIVE_TO_ATOMIC_TYPE == DictOf(_PRIMITIVES \o OneWay, 1, 2)
ATOMIC_TYPE_TO_PRIMITIVE == DictOf(_PRIMITIVES, 2, 1)

-----------------------------------------------------------------------------
(* The native types of the model *)

\* user NamedTuple classes and their fields (name, annotation)
NTNames == {"A", "B", "Node", "MicrosInstantRepresentation"}

NTFields(n) ==
  CASE n = "A" -> << <<"x", Prim("int")>>, <<"b", <<"NT", "B">> >> >>
    [] n = "B" -> << <<"y", Prim("str")>> >>
    [] n = "Node" -> << <<"next", <<"NT", "Node">> >> >>
    [] n = "MicrosInstantRepresentation" ->
         << <<"seconds", Prim("np.int64")>>, <<"micros", Prim("np.int64")>> >>

\* LogicalType implementations: the two of the module and four a user defines;
\* L1 and L2 share a URN, L2 and L3 a language type, which is in the atomic
\* table, and the language type of L4 is a NamedTuple
LogicalClasses == {"MicrosInstant", "PythonCallable", "L1", "L2", "L3", "L4"}

urn(c) ==
  CASE c = "MicrosInstant" -> MICROS_INSTANT_URN
    [] c = "PythonCallable" -> PYTHON_CALLABLE_URN
    [] c = "L1" -> "urn:u1"
    [] c = "L2" -> "urn:u1"
    [] c = "L3" -> "urn:u3"
    [] c = "L4" -> "urn:u4"

language_type(c) ==
  CASE c = "MicrosInstant" -> <<"lang", "Timestamp">>
    [] c = "PythonCallable" -> <<"lang", "PythonCallableWithSource">>
    [] c = "L1" -> <<"lang", "Custom">>
    [] c = "L2" -> Prim("str")
    [] c = "L3" -> Prim("str")
    [] c = "L4" -> <<"NT", "B">>

representation_type(c) ==
  CASE c = "MicrosInstant" -> <<"NT", "MicrosInstantRepresentation">>
    [] c = "PythonCallable" -> Prim("str")
    [] c = "L1" -> Prim("int")
    [] c = "L2" -> Prim("np.int64")
    [] c = "L3" -> Prim("bytes")
    [] c = "L4" -> Prim("str")

Urns == {urn(c) : c \in LogicalClasses}
LanguageTypes == {language_type(c) : c \in LogicalClasses}

-----------------------------------------------------------------------------
(* Descriptors *)

Atomic(kind) == <<"atomic_type", FALSE, kind>>
Array(e) == <<"array_type", FALSE, e>>
Map(k, v) == <<"map_type", FALSE, k, v>>
Row(schema) == <<"row_type", FALSE, schema>>
Logical(u, rep) == <<"logical_type", FALSE, u, rep>>
Unset == <<"unset", FALSE>>
Schema(id, fields) == <<"Schema", id, fields>>

Nullable(d) == [d EXCEPT ![2] = TRUE]
NotNullable(d) == [d EXCEPT ![2] = FALSE]

Raise(e) == <<"raise", e>>
IsRaise(r) == r[1] = "raise"

-----------------------------------------------------------------------------
(* Type introspection used by the translation *)

\* RowTypeConstraint.from_user_type: NamedTuple classes coerce, nothing else
from_user_type(t) ==
  IF t[1] \in {"NT", "Synth"} THEN <<"RowTypeConstraint", t>> ELSE NoneV

_match_is_exactly_mapping(t) == t[1] = "Mapping"

_match_is_optional(t) == t[1] = "Optional"

extract_optional_type(t) == t[2]

\* issubclass(t, typing.Sequence) / issubclass(t, typing.Mapping); a NamedTuple
\* is a tuple, and str, bytes and ByteString are sequences
_safe_issubclass(t, parent) ==
  CASE parent = "Sequence" ->
         \/ t[1] \in {"Sequence", "list", "NT", "Synth"}
         \/ t \in {Prim("str"), Prim("bytes"), Prim("ByteString")}
    [] parent = "Mapping" -> t[1] \in {"Mapping", "Dict"}

_get_args(t) ==
  CASE t[1] \in {"Optional", "Sequence"} -> <<t[2]>>
    [] t[1] \in {"Mapping", "Dict"} -> <<t[2], t[3]>>
    [] OTHER -> <<>>

\* Optional[base]: Union flattens, so Optional of an Optional is that Optional
OptionalOf(base) == IF base[1] = "Optional" THEN base ELSE <<"Optional", base>>

-----------------------------------------------------------------------------
(* The state a translation reads and writes, threaded through its calls *)

Ret(st, res) == [st |-> st, res |-> res]

Log(st, event) == [st EXCEPT !.log = Append(@, event)]

\* the schema id a user type carries (RowTypeConstraint.schema_id)
SchemaIdOf(st, u) ==
  IF u[1] = "NT" THEN st.schema_id[u[2]] ELSE st.synth[u[2]].schema[2]

\* RowTypeConstraint._fields
FieldsOf(st, u) ==
  IF u[1] = "NT" THEN NTFields(u[2]) ELSE st.synth[u[2]].fields

\* RowTypeConstraint.set_schema_id: the id is stored on the user type
set_schema_id(st, u, id) ==
  IF u[1] = "NT" THEN [st EXCEPT !.schema_id[u[2]] = id] ELSE st

-----------------------------------------------------------------------------
(* SchemaTypeRegistry *)

Keys(reg_by_id) == {i \in Ids : reg_by_id[i] # NoneV}

\* the loop of generate_new_id: attempt n is reached when the n-1 attempts
\* before it each drew a key of by_id; it returns the id uuid4 draws if that is
\* no key; MaxTries attempts that each drew a key end in the AssertionError
generate_new_id(reg_by_id) ==
  LET keys == Keys(reg_by_id)
      Reached(n) == n = 1 \/ keys # {}
  IN {i \in Ids \ keys : \E n \in 1..MaxTries : Reached(n)}
     \cup (IF Reached(MaxTries + 1) THEN {"AssertionError"} ELSE {})

add(st, reg, typing, schema) ==
  LET st1 == Log(st, <<"add", reg, schema[2], typing, st.by_id[reg][schema[2]]>>)
  IN [st1 EXCEPT !.by_id[reg][schema[2]] = <<"entry", typing, schema>>]

get_typing_by_id(st, reg, unique_id) ==
  LET result == st.by_id[reg][unique_id]
  IN IF result # NoneV THEN result[2] ELSE NoneV

get_schema_by_id(st, reg, unique_id) ==
  LET result == st.by_id[reg][unique_id]
  IN IF result # NoneV THEN result[3] ELSE NoneV

-----------------------------------------------------------------------------
(* LogicalType lookups *)

\* LogicalType.from_typing: the registered class, or NoId for the ValueError
from_typing(t) ==
  IF t \in DOMAIN by_language_type THEN by_language_type[t] ELSE NoId

\* LogicalType.from_runner_api
from_runner_api(u) ==
  IF u \in DOMAIN by_urn THEN by_urn[u] ELSE NoId

-----------------------------------------------------------------------------
(* SchemaTranslation.typing_to_runner_api.  Each operator yields the set of  *)
(* outcomes [st, res] the call can have: uuid4 is the only source of choice. *)

RECURSIVE typing_to_runner_api(_, _, _, _)
RECURSIVE encode_all(_, _, _, _, _, _)
RECURSIVE new_schema(_, _, _, _, _)
RECURSIVE encode_row(_, _, _, _)

\* the recursive calls on ts[i], ts[i+1], ... in order; the first that raises
\* ends the comprehension
encode_all(reg, ts, i, st, acc, d) ==
  IF i > Len(ts) THEN {Ret(st, <<"ok", acc>>)}
  ELSE UNION { IF IsRaise(o.res) THEN {o}
               ELSE encode_all(reg, ts, i + 1, o.st, Append(acc, o.res), d)
               : o \in typing_to_runner_api(reg, ts[i], st, d) }

\* lines 204-211: the fields are encoded, then the schema is added
new_schema(reg, u, st, sid, d) ==
  LET fields == FieldsOf(st, u)
      types == [i \in DOMAIN fields |-> fields[i][2]]
  IN UNION { IF IsRaise(o.res) THEN {o}
             ELSE LET schema == Schema(sid,
                        [i \in DOMAIN fields |-> <<fields[i][1], o.res[2][i]>>])
                  IN {Ret(add(o.st, reg, u, schema), Row(schema))}
             : o \in encode_all(reg, types, 1, st, <<>>, d + 1) }

\* lines 190-212, type_ a RowTypeConstraint
encode_row(reg, t, st, d) ==
  LET u == t[2] IN
  IF SchemaIdOf(st, u) = NoId
  THEN UNION { IF g = "AssertionError" THEN {Ret(st, Raise("AssertionError"))}
               ELSE new_schema(reg, u,
                      set_schema_id(Log(st, <<"generate", g>>), u, g), g, d)
               : g \in generate_new_id(st.by_id["SCHEMA_REGISTRY"]) }
  ELSE LET schema == get_schema_by_id(st, reg, SchemaIdOf(st, u))
       IN IF schema = NoneV THEN new_schema(reg, u, st, SchemaIdOf(st, u), d)
          ELSE {Ret(st, Row(schema))}

\* map(self.typing_to_runner_api, _get_args(type_)) unpacked into key and value
encode_map(reg, t, st, d) ==
  { IF IsRaise(o.res) THEN o
    ELSE IF Len(o.res[2]) # 2 THEN Ret(o.st, Raise("ValueError"))
    ELSE Ret(o.st, Map(o.res[2][1], o.res[2][2]))
    : o \in encode_all(reg, _get_args(t), 1, st, <<>>, d + 1) }

\* the placeholder without nullable = True
any_type_not_nullable(st) == {Ret(st, Logical(PYTHON_ANY_URN, Unset))}

\* lines 250-254: no logical type is registered for the type
any_type(st) == {Ret(st, Nullable(Logical(PYTHON_ANY_URN, Unset)))}

\* lines 248-261
encode_logical(reg, t, st, d) ==
  IF from_typing(t) = NoId THEN any_type(st)
  ELSE { IF IsRaise(o.res) THEN o
         ELSE Ret(o.st, Logical(urn(from_typing(t)), o.res))
         : o \in typing_to_runner_api(reg, representation_type(from_typing(t)),
                                      st, d + 1) }

\* the registered logical type tried before the atomic table and the shapes
encode_concrete_logical_first(reg, t, st, d) ==
  IF from_typing(t) # NoId THEN encode_logical(reg, t, st, d)
  ELSE IF t \in DOMAIN PRIMITIVE_TO_ATOMIC_TYPE
    THEN {Ret(st, Atomic(PRIMITIVE_TO_ATOMIC_TYPE[t]))}
  ELSE IF _match_is_exactly_mapping(t) THEN encode_map(reg, t, st, d)
  ELSE IF _match_is_optional(t)
    THEN { IF IsRaise(o.res) THEN o ELSE Ret(o.st, Nullable(o.res))
           : o \in typing_to_runner_api(reg, extract_optional_type(t), st, d + 1) }
  ELSE IF _safe_issubclass(t, "Sequence")
    THEN IF _get_args(t) = <<>> THEN {Ret(st, Raise("IndexError"))}
         ELSE { IF IsRaise(o.res) THEN o ELSE Ret(o.st, Array(o.res))
                : o \in typing_to_runner_api(reg, _get_args(t)[1], st, d + 1) }
  ELSE IF _safe_issubclass(t, "Mapping") THEN encode_map(reg, t, st, d)
  ELSE any_type(st)

\* lines 220-261: the types that are no Schema and no row
encode_concrete(reg, t, st, d) ==
  IF t \in DOMAIN PRIMITIVE_TO_ATOMIC_TYPE
    THEN {Ret(st, Atomic(PRIMITIVE_TO_ATOMIC_TYPE[t]))}
  ELSE IF _match_is_exactly_mapping(t) THEN encode_map(reg, t, st, d)
  ELSE IF _match_is_optional(t)
    THEN { IF IsRaise(o.res) THEN o ELSE Ret(o.st, Nullable(o.res))
           : o \in typing_to_runner_api(reg, extract_optional_type(t), st, d + 1) }
  ELSE IF _safe_issubclass(t, "Sequence")
    THEN IF _get_args(t) = <<>> THEN {Ret(st, Raise("IndexError"))}
         ELSE { IF IsRaise(o.res) THEN o ELSE Ret(o.st, Array(o.res))
                : o \in typing_to_runner_api(reg, _get_args(t)[1], st, d + 1) }
  ELSE IF _safe_issubclass(t, "Mapping") THEN encode_map(reg, t, st, d)
  ELSE encode_logical(reg, t, st, d)

\* lines 186-261; nested deeper than MaxDepth the call ends in RecursionError
typing_to_runner_api(reg, t, st, d) ==
  IF d > MaxDepth THEN {Ret(st, Raise("RecursionError"))}
  ELSE IF t[1] = "Schema" THEN {Ret(st, Row(t))}
  ELSE IF t[1] = "RowTypeConstraint" THEN encode_row(reg, t, st, d)
  ELSE IF from_user_type(t) # NoneV
    THEN typing_to_runner_api(reg, from_user_type(t), st, d + 1)
  ELSE encode_concrete(reg, t, st, d)

-----------------------------------------------------------------------------
(* SchemaTranslation.typing_from_runner_api: one outcome, decode draws nothing *)

\* a generated type left without its coder
register_coder_skipped(st, user_type) == st

\* coders.registry.register_coder(user_type, coders.RowCoder)
register_coder(st, user_type) ==
  [Log(st, <<"register_coder", user_type>>) EXCEPT !.coders = @ \cup {user_type}]

\* NamedTuple(type_name, subfields) with its __reduce__, a new class each time
NamedTuple(st, schema, subfields) ==
  [st EXCEPT !.synth = Append(@, [schema |-> schema, fields |-> subfields])]

RECURSIVE typing_from_runner_api(_, _, _)
RECURSIVE decode_fields(_, _, _, _, _)

\* lines 303-314: the loop over schema.fields; a RowTypeConstraint is replaced
\* by its user type, a ValueError is raised again with the field in its text
decode_fields(reg, fields, i, st, subfields) ==
  IF i > Len(fields) THEN Ret(st, <<"ok", subfields>>)
  ELSE LET o == typing_from_runner_api(reg, fields[i][2], st)
           field_py_type == IF o.res[1] = "RowTypeConstraint" THEN o.res[2]
                            ELSE o.res
       IN IF IsRaise(o.res) THEN Ret(o.st, Raise("ValueError"))
          ELSE decode_fields(reg, fields, i + 1, o.st,
                             Append(subfields, <<fields[i][1], field_py_type>>))

\* the generated type registered before its fields are decoded
decode_row_registers_first(reg, schema, st) ==
  LET user_type == get_typing_by_id(st, reg, schema[2]) IN
  IF user_type = NoneV
  THEN LET st1 == NamedTuple(st, schema, <<>>)
           new_type == <<"Synth", Len(st1.synth)>>
           st2 == register_coder(add(st1, reg, new_type, schema), new_type)
           o == decode_fields(reg, schema[3], 1, st2, <<>>)
       IN IF IsRaise(o.res) THEN o
          ELSE Ret([o.st EXCEPT !.synth[new_type[2]].fields = o.res[2]],
                   from_user_type(new_type))
  ELSE Ret(st, from_user_type(user_type))

\* lines 291-333
decode_row(reg, schema, st) ==
  LET user_type == get_typing_by_id(st, reg, schema[2]) IN
  IF user_type = NoneV
  THEN LET o == decode_fields(reg, schema[3], 1, st, <<>>) IN
       IF IsRaise(o.res) THEN o
       ELSE LET st1 == NamedTuple(o.st, schema, o.res[2])
                new_type == <<"Synth", Len(st1.synth)>>
                st2 == add(st1, reg, new_type, schema)
                st3 == register_coder(st2, new_type)
            IN Ret(st3, from_user_type(new_type))
  ELSE Ret(st, from_user_type(user_type))

typing_from_runner_api(reg, f, st) ==
  IF f[2]
  THEN LET o == typing_from_runner_api(reg, NotNullable(f), st) IN
       IF IsRaise(o.res) \/ o.res = <<"Any">> THEN o
       ELSE Ret(o.st, OptionalOf(o.res))
  ELSE IF f[1] = "atomic_type"
    THEN IF f[3] \in DOMAIN ATOMIC_TYPE_TO_PRIMITIVE
         THEN Ret(st, ATOMIC_TYPE_TO_PRIMITIVE[f[3]])
         ELSE Ret(st, Raise("ValueError"))
  ELSE IF f[1] = "array_type"
    THEN LET o == typing_from_runner_api(reg, f[3], st) IN
         IF IsRaise(o.res) THEN o ELSE Ret(o.st, <<"Sequence", o.res>>)
  ELSE IF f[1] = "map_type"
    THEN LET k == typing_from_runner_api(reg, f[3], st) IN
         IF IsRaise(k.res) THEN k
         ELSE LET v == typing_from_runner_api(reg, f[4], k.st) IN
              IF IsRaise(v.res) THEN v
              ELSE Ret(v.st, <<"Mapping", k.res, v.res>>)
  ELSE IF f[1] = "row_type" THEN decode_row(reg, f[3], st)
  ELSE IF f[1] = "logical_type"
    THEN IF f[3] = PYTHON_ANY_URN THEN Ret(st, <<"Any">>)
         ELSE IF from_runner_api(f[3]) = NoId THEN Ret(st, Raise("ValueError"))
         ELSE Ret(st, language_type(from_runner_api(f[3])))
  ELSE Ret(st, Raise("ValueError"))

-----------------------------------------------------------------------------
(* Re-hydration of an instance of a generated NamedTuple *)

\* schema.SerializeToString() and proto_utils.parse_Bytes(_, schema_pb2.Schema):
\* the message on the wire and the message read back from it
SerializeToString(schema) == <<"bytes", schema>>
parse_Bytes(encoded) == encoded[2]

\* user_type(*values): a NamedTuple takes one value per field
Instantiate(st, user_type, values) ==
  IF Len(values) = Len(FieldsOf(st, user_type))
  THEN <<"instance", user_type, values>>
  ELSE Raise("TypeError")

\* named_tuple_from_schema, schema_registry left at its default
named_tuple_from_schema(schema, st) ==
  LET o == typing_from_runner_api("SCHEMA_REGISTRY", Row(schema), st)
  IN IF IsRaise(o.res) THEN o ELSE Ret(o.st, o.res[2])

_hydrate_namedtuple_instance(encoded_schema, values, st) ==
  LET o == named_tuple_from_schema(parse_Bytes(encoded_schema), st)
  IN IF IsRaise(o.res) THEN o ELSE Ret(o.st, Instantiate(o.st, o.res, values))

\* __reduce__ of an instance of the k-th generated type holding values
Reduce(k, values) == <<SerializeToString(synth[k].schema), values>>

-----------------------------------------------------------------------------
(* LogicalTypeRegistry.add *)

Put(dict, key, value) ==
  [k \in DOMAIN dict \cup {key} |-> IF k = key THEN value ELSE dict[k]]

\* by_logical_type assigned a new dict instead of one more item
LogicalTypeRegistry_add_reset(lr, u, logical_type) ==
  [by_urn |-> Put(lr.by_urn, u, logical_type),
   by_logical_type |-> [c \in {logical_type} |-> u],
   by_language_type |->
     Put(lr.by_language_type, language_type(logical_type), logical_type)]

LogicalTypeRegistry_add(lr, u, logical_type) ==
  [by_urn |-> Put(lr.by_urn, u, logical_type),
   by_logical_type |-> Put(lr.by_logical_type, logical_type, u),
   by_language_type |->
     Put(lr.by_language_type, language_type(logical_type), logical_type)]

register_logical_type(lr, logical_type_cls) ==
  LogicalTypeRegistry_add(lr, urn(logical_type_cls), logical_type_cls)

EmptyDict == [k \in {} |-> NoId]

\* the module registers MicrosInstant and PythonCallable when it is imported
KnownAtImport ==
  register_logical_type(
    register_logical_type(
      [by_urn |-> EmptyDict, by_logical_type |-> EmptyDict,
       by_language_type |-> EmptyDict],
      "MicrosInstant"),
    "PythonCallable")

-----------------------------------------------------------------------------
(* Inputs *)

S1 == Schema("id1", << <<"a", Atomic("INT64")>>,
                       <<"b", Nullable(Atomic("STRING"))>> >>)
\* a schema of another SDK that nests S1
S2 == Schema("id2", << <<"r", Row(S1)>> >>)
\* a nested row with the id of the outer one, followed by an unsupported kind
S3 == Schema("id1", << <<"p", Row(Schema("id1", << <<"q", Atomic("BYTE")>> >>))>>,
                       <<"z", Atomic("UNSPECIFIED")>> >>)

\* a complete nested row followed by a logical type no class is registered for
S4 == Schema("id2", << <<"n", Row(S1)>>,
                       <<"u", Logical("urn:unknown", Atomic("INT64"))>> >>)
\* a field whose oneof has no member set
S5 == Schema("id2", << <<"w", Unset>> >>)

WireSchemas == {S1, S2, S3, S4, S5}

AtomicKinds == {_PRIMITIVES[i][2] : i \in DOMAIN _PRIMITIVES} \cup {"UNSPECIFIED"}

\* descriptors whose decoding reads no schema registry
PlainWireTypes ==
  {Atomic(k) : k \in AtomicKinds}
  \cup { Nullable(Atomic("BOOLEAN")),
         Array(Atomic("INT64")),
         Map(Atomic("STRING"), Atomic("INT64")),
         Logical(MICROS_INSTANT_URN, Unset),
         Logical("urn:u1", Atomic("INT64")),
         Nullable(Logical(PYTHON_ANY_URN, Unset)),
         Unset }

RowWireTypes == {Row(s) : s \in WireSchemas} \cup {Nullable(Row(S1))}

\* types whose encoding reads no schema registry
PlainTypes ==
  DOMAIN PRIMITIVE_TO_ATOMIC_TYPE
  \cup {<<"lang", "PythonCallableWithSource">>, <<"lang", "Custom">>,
        <<"object">>}
  \cup { <<"Optional", Prim("bool")>>,
         <<"Optional", <<"lang", "Custom">> >>,
         <<"Sequence", Prim("int")>>,
         <<"Mapping", Prim("str"), Prim("np.int64")>>,
         <<"Dict", Prim("str"), Prim("int")>>,
         S1 }

RowTypes == {<<"NT", "A">>, <<"NT", "B">>, <<"NT", "Node">>}

\* the values of an instance
Values == {<<"v1">>, <<"v1", "v2">>}

-----------------------------------------------------------------------------
(* The state machine *)

St == [by_id |-> by_id, schema_id |-> schema_id, synth |-> synth,
       coders |-> coders, log |-> <<>>]

Known == [by_urn |-> by_urn, by_logical_type |-> by_logical_type,
          by_language_type |-> by_language_type]

Apply(o, op, reg, arg, src) ==
  /\ Len(o.st.synth) <= MaxSynth
  /\ by_id' = o.st.by_id
  /\ schema_id' = o.st.schema_id
  /\ synth' = o.st.synth
  /\ coders' = o.st.coders
  /\ last' = [op |-> op, reg |-> reg, arg |-> arg, src |-> src,
              res |-> o.res, log |-> o.st.log]
  /\ UNCHANGED <<by_urn, by_logical_type, by_language_type>>

Init ==
  /\ by_id = [r \in Registries |-> [i \in Ids |-> NoneV]]
  /\ schema_id = [n \in NTNames |-> NoId]
  /\ synth = <<>>
  /\ coders = {}
  /\ by_urn = KnownAtImport.by_urn
  /\ by_logical_type = KnownAtImport.by_logical_type
  /\ by_language_type = KnownAtImport.by_language_type
  /\ last = [op |-> "import", reg |-> "SCHEMA_REGISTRY", arg |-> NoneV,
             src |-> NoneV, res |-> NoneV, log |-> <<>>]

\* typing_to_runner_api(type_, schema_registry) for a call <<registry, type>>
Encode(calls) ==
  \E c \in calls :
    \E o \in typing_to_runner_api(c[1], c[2], St, 0) :
      Apply(o, "encode", c[1], c[2], NoneV)

\* typing_from_runner_api(fieldtype_proto, schema_registry) for a call
\* <<registry, descriptor>>, or for the descriptor typing_to_runner_api has
\* just returned, with the same registry; last.src is then the encoded type
Decode(calls) ==
  \/ \E c \in calls :
       Apply(typing_from_runner_api(c[1], c[2], St), "decode", c[1], c[2], NoneV)
  \/ /\ last.op = "encode"
     /\ ~IsRaise(last.res)
     /\ Apply(typing_from_runner_api(last.reg, last.res, St), "decode",
              last.reg, last.res, last.arg)

\* pickle.loads of what __reduce__ gave for an instance of a generated type
Hydrate ==
  \E k \in DOMAIN synth :
    \E values \in {v \in Values : Len(v) = Len(synth[k].fields)} :
      Apply(_hydrate_namedtuple_instance(Reduce(k, values)[1],
                                         Reduce(k, values)[2], St),
            "hydrate", "SCHEMA_REGISTRY", Reduce(k, values), <<"Synth", k>>)

\* LogicalType.register_logical_type(logical_type_cls)
Register ==
  \E c \in LogicalClasses :
    LET lr == register_logical_type(Known, c) IN
    /\ by_urn' = lr.by_urn
    /\ by_logical_type' = lr.by_logical_type
    /\ by_language_type' = lr.by_language_type
    /\ last' = [op |-> "register", reg |-> "SCHEMA_REGISTRY", arg |-> c,
                src |-> NoneV, res |-> NoneV,
                log |-> << <<"replaced", from_runner_api(urn(c)),
                             from_typing(language_type(c))>> >>]
    /\ UNCHANGED <<by_id, schema_id, synth, coders>>

\* Row types with either registry, and types no rule of the translation knows
EncodeRows ==
  Encode((Registries \X (RowTypes \cup {<<"Synth", k>> : k \in DOMAIN synth}))
         \cup ({"SCHEMA_REGISTRY"} \X {<<"object">>, <<"lang", "Custom">>}))

DecodeRows == Decode(Registries \X RowWireTypes)

Next == EncodeRows \/ DecodeRows \/ Hydrate

Spec == Init /\ [][Next]_vars

\* The translation of types other than rows, with the logical types registered
\* in any order; B stands for the row types
EncodePlain ==
  Encode({"SCHEMA_REGISTRY"}
         \X (PlainTypes \cup {<<"NT", "A">>, <<"NT", "B">>,
                              <<"Optional", <<"NT", "B">> >>}))

DecodePlain == Decode({"SCHEMA_REGISTRY"} \X (PlainWireTypes \cup {Row(S1)}))

NextPlain == EncodePlain \/ DecodePlain \/ Register

SpecPlain == Init /\ [][NextPlain]_vars

-----------------------------------------------------------------------------
(* Properties *)

\* registry r holds, under the id NamedTuple n carries, the entry encode added
\* for n
Assigned(r, n) ==
  /\ schema_id[n] # NoId
  /\ by_id[r][schema_id[n]] # NoneV
  /\ by_id[r][schema_id[n]][2] = <<"NT", n>>

\* the events of the last call that are of one kind
Events(kind) == {k \in DOMAIN last.log : last.log[k][1] = kind}

\* C1: schema id stability.  Once encode has added the schema of a NamedTuple
\* under the id it assigned to it, in a registry, the NamedTuple keeps that id,
\* the registry keeps that schema for it, and every encode of it with that
\* registry returns the Row of that very schema.
C1_SchemaIdStable ==
  [][\A r \in Registries, n \in NTNames :
       Assigned(r, n) =>
         /\ schema_id'[n] = schema_id[n]
         /\ by_id'[r][schema_id[n]] = by_id[r][schema_id[n]]
         /\ (last'.op = "encode" /\ last'.reg = r /\ last'.arg = <<"NT", n>>)
              => last'.res = Row(by_id[r][schema_id[n]][3])]_vars

\* the names of a sequence of fields <<name, type>>, in order
Names(fields) == [k \in DOMAIN fields |-> fields[k][1]]

\* the step is a top-level decode, with registry r, of a Row of schema id i
DecodesRow(r, i) ==
  /\ last'.op = "decode"
  /\ last'.reg = r
  /\ last'.arg[1] = "row_type"
  /\ ~last'.arg[2]
  /\ last'.arg[3][2] = i

\* C2: synthesis idempotence.  A decode of a Row whose id the registry lacks
\* returns a newly generated type with the declared field names in order,
\* registered under that id; from then on the id stays registered to that
\* type, and a decode of a Row with that id returns that type and generates
\* and registers nothing.
C2_SynthesisIdempotent ==
  [][\A r \in Registries, i \in Ids :
       /\ (by_id[r][i] = NoneV /\ DecodesRow(r, i) /\ ~IsRaise(last'.res)) =>
            /\ Len(synth') > Len(synth)
            /\ last'.res = <<"RowTypeConstraint", <<"Synth", Len(synth')>> >>
            /\ Names(synth'[Len(synth')].fields) = Names(last'.arg[3][3])
            /\ by_id'[r][i] = <<"entry", <<"Synth", Len(synth')>>, last'.arg[3]>>
       /\ (by_id[r][i] # NoneV /\ by_id[r][i][2][1] = "Synth") =>
            /\ by_id'[r][i] = by_id[r][i]
            /\ DecodesRow(r, i) =>
                 /\ last'.res = <<"RowTypeConstraint", by_id[r][i][2]>>
                 /\ synth' = synth]_vars

\* no rule of typing_to_runner_api before the logical types applies to t
NoKnownShape(t) ==
  /\ t[1] \notin {"Schema", "RowTypeConstraint", "NT", "Synth"}
  /\ t \notin DOMAIN PRIMITIVE_TO_ATOMIC_TYPE
  /\ t[1] \notin {"Mapping", "Optional", "Sequence", "list", "Dict"}

AnyDescriptor == <<"logical_type", TRUE, PYTHON_ANY_URN, <<"unset", FALSE>> >>

\* C3 as claimed: typing_to_runner_api never raises, whatever the type and the
\* registry, and a type of no known shape and no logical type becomes the
\* nullable placeholder.
C3_EncodeNeverRaises ==
  last.op = "encode" =>
    /\ ~IsRaise(last.res)
    /\ (NoKnownShape(last.arg) /\ last.arg \notin DOMAIN by_language_type)
         => last.res = AnyDescriptor

\* C3 as amended: a type of no known shape for which no logical type is
\* registered is encoded as Logical(PYTHON_ANY_URN) with nullable set, without
\* an exception and without a change of the registry.
C3_UnknownTypeIsAny ==
  (/\ last.op = "encode"
   /\ NoKnownShape(last.arg)
   /\ last.arg \notin DOMAIN by_language_type)
  => (last.res = AnyDescriptor /\ last.log = <<>>)

\* an unknown type got the placeholder while a schema was registered and a
\* user's logical type was known
C3_Witness ==
  /\ last.op = "encode"
  /\ last.arg = <<"lang", "Custom">>
  /\ last.res = AnyDescriptor
  /\ Keys(by_id["SCHEMA_REGISTRY"]) # {}
  /\ "urn:u3" \in DOMAIN by_urn

\* C4: the encoding of a NamedTuple with a field of its own type ends with a
\* descriptor: it does not nest until the interpreter gives up.
C4_SelfReferenceTerminates ==
  (last.op = "encode" /\ last.arg = <<"NT", "Node">>)
  => last.res # Raise("RecursionError")

\* C5: whenever encode adds a schema to a registry, the registry had no entry
\* under the id of that schema: add replaces no entry.
C5_IdsUnique ==
  last.op = "encode" => \A k \in Events("add") : last.log[k][5] = NoneV

\* every add of the last call came with a register_coder for the added type
AddsNotified ==
  \A k \in Events("add") :
    \E j \in Events("register_coder") : last.log[j][2] = last.log[k][4]

\* C6 as claimed: every registration of a type, by encode or by decode, comes
\* with a notification of the coder registry for that type.
C6_EveryRegistrationNotifies == AddsNotified

\* C6 as amended: every registration by decode (or by the re-hydration, which
\* decodes) comes with the notification, and every generated type a registry
\* holds has been notified.
C6_DecodeNotifies ==
  /\ last.op \in {"decode", "hydrate"} => AddsNotified
  /\ \A r \in Registries, i \in Ids :
       (by_id[r][i] # NoneV /\ by_id[r][i][2][1] = "Synth")
         => by_id[r][i][2] \in coders

\* a decode generated and registered a type
C6_Witness ==
  /\ last.op = "decode"
  /\ Events("add") # {}
  /\ ~IsRaise(last.res)

\* the types of the atomic table that decode returns, and the others
Bijective ==
  {Prim(n) : n \in {"np.int8", "np.int16", "np.int32", "np.int64", "np.float32",
                    "np.float64", "str", "bool", "bytes"}}
OneWayTypes == {Prim("int"), Prim("float"), Prim("ByteString")}

Canonical(t) ==
  CASE t = Prim("int") -> Prim("np.int64")
    [] t = Prim("float") -> Prim("np.float64")
    [] t = Prim("ByteString") -> Prim("bytes")
    [] OTHER -> t

\* C7: the decoding of the encoding of a type of the atomic table is the type
\* itself for the nine two-way types, np.int64 for int, np.float64 for float
\* and bytes for ByteString; decode never returns int, float or ByteString.
C7_AtomicRoundTrip ==
  last.op = "decode" =>
    /\ last.res \notin OneWayTypes
    /\ last.src \in DOMAIN PRIMITIVE_TO_ATOMIC_TYPE
         => /\ DOMAIN PRIMITIVE_TO_ATOMIC_TYPE = Bijective \cup OneWayTypes
            /\ last.res = Canonical(last.src)

\* the descriptor of int was decoded
C7_Witness ==
  /\ last.op = "decode"
  /\ last.src = Prim("int")
  /\ last.res = Prim("np.int64")

\* the oneof member the first rule that applies to t sets
RECURSIVE ExpectedMember(_)
ExpectedMember(t) ==
  IF t[1] = "Schema" THEN "row_type"
  ELSE IF t[1] \in {"RowTypeConstraint", "NT", "Synth"} THEN "row_type"
  ELSE IF t \in DOMAIN PRIMITIVE_TO_ATOMIC_TYPE THEN "atomic_type"
  ELSE IF t[1] = "Mapping" THEN "map_type"
  ELSE IF t[1] = "Optional" THEN ExpectedMember(t[2])
  ELSE IF t[1] = "Sequence" THEN "array_type"
  ELSE IF t[1] = "Dict" THEN "map_type"
  ELSE "logical_type"

Registers(c) == last'.op = "register" /\ last'.arg = c

\* C9 as claimed: the registration of a logical type whose URN is registered
\* changes no lookup of the registry.
C9_IdempotentPerUrn ==
  [][\A c \in LogicalClasses :
       (Registers(c) /\ urn(c) \in DOMAIN by_urn)
         => UNCHANGED <<by_urn, by_logical_type, by_language_type>>]_vars

\* C9 as amended: the registration of a class that the registry returns for
\* its URN and for its language type changes no lookup of the registry.
C9_IdempotentForHolder ==
  [][\A c \in LogicalClasses :
       (/\ Registers(c)
        /\ from_runner_api(urn(c)) = c
        /\ from_typing(language_type(c)) = c)
         => UNCHANGED <<by_urn, by_logical_type, by_language_type>>]_vars

\* L2 was registered again while it held its URN and its language type, which
\* L1 and L3 had held or claimed before
C9_Witness ==
  /\ last.op = "register"
  /\ last.arg = "L2"
  /\ last.log = << <<"replaced", "L2", "L2">> >>
  /\ {"L1", "L3"} \subseteq DOMAIN by_logical_type

\* C10 as claimed: the re-hydration returns an instance holding the values in
\* order, of a type with the field names of the schema in order, which the
\* process-wide registry holds under the id of the schema: the registered one,
\* the registry unchanged, or one generated and registered by this call.
C10_Rehydrates ==
  last.op = "hydrate" =>
    LET schema == parse_Bytes(last.arg[1])
        entry == by_id["SCHEMA_REGISTRY"][schema[2]]
    IN /\ ~IsRaise(last.res)
       /\ last.res[1] = "instance"
       /\ last.res[3] = last.arg[2]
       /\ Names(FieldsOf(St, last.res[2])) = Names(schema[3])
       /\ entry # NoneV
       /\ entry[2] = last.res[2]
       /\ \/ last.log = <<>>
          \/ /\ last.res[2] = <<"Synth", Len(synth)>>
             /\ \E k \in Events("add") :
                  last.log[k] = <<"add", "SCHEMA_REGISTRY", schema[2],
                                  last.res[2], NoneV>>

\* the step is a top-level decode, with registry r, of a Row of schema id i
\* that r lacks, and it raises
FailedDecode(r, i) ==
  /\ by_id[r][i] = NoneV
  /\ DecodesRow(r, i)
  /\ IsRaise(last'.res)

\* the schemas of the rows nested in a descriptor
RECURSIVE NestedSchemas(_)
NestedSchemas(f) ==
  CASE f[1] = "row_type" ->
         {f[3]} \cup UNION {NestedSchemas(f[3][3][k][2]) : k \in DOMAIN f[3][3]}
    [] f[1] = "array_type" -> NestedSchemas(f[3])
    [] f[1] = "map_type" -> NestedSchemas(f[3]) \cup NestedSchemas(f[4])
    [] OTHER -> {}

\* C11 as claimed: when the decode of a Row whose schema id the registry lacks
\* fails in one of its fields, the caller gets the error and the registry
\* still has no entry under the id of that Row.
C11_FailedDecodeLeavesIdAbsent ==
  [][\A r \in Registries, i \in Ids :
       FailedDecode(r, i) =>
         /\ last'.res = Raise("ValueError")
         /\ by_id'[r][i] = NoneV]_vars

\* C11 as amended: the caller gets a ValueError and no type is registered for
\* the Row itself; what the failed call adds to the registry are the types of
\* the rows nested in fields decoded before the failing one, each with its
\* coder, so the id of the Row is registered only if such a nested row has it.
C11_FailedDecodeRegistersNoOuterType ==
  [][\A r \in Registries, i \in Ids :
       FailedDecode(r, i) =>
         LET outer == last'.arg[3]
             inner == UNION {NestedSchemas(outer[3][k][2]) : k \in DOMAIN outer[3]}
         IN /\ last'.res = Raise("ValueError")
            /\ \A q \in Registries, j \in Ids :
                 by_id'[q][j] # by_id[q][j] =>
                   /\ q = r
                   /\ by_id'[q][j][3] \in inner
                   /\ by_id'[q][j][3] # outer
                   /\ by_id'[q][j][2] \in coders'
            /\ \A k \in (Len(synth) + 1)..Len(synth') :
                 synth'[k].schema \in inner /\ synth'[k].schema # outer]_vars

\* a decode failed in its second field after the nested row of its first
\* field was registered, and the id of the failed Row is still absent
C11_Witness ==
  /\ last.op = "decode"
  /\ last.arg = Row(S4)
  /\ last.res = Raise("ValueError")
  /\ Events("add") # {}
  /\ by_id[last.reg]["id2"] = NoneV
  /\ by_id[last.reg]["id1"] # NoneV

====
